---- MODULE Spec2Model ----
(***************************************************************************)
(* A model of the PL011 UART driver of src/src/lib.rs: the register map,   *)
(* the polling driver built on it, and the peripheral it talks to.         *)
(*                                                                         *)
(* The driver is one sequential thread (pc, op, loc, ret); every register  *)
(* access is one atomic step, and the peripheral (rxFifo, txFifo, frOther, *)
(* mem) may act between any two of them.  h is a history record that only  *)
(* observes: it is never read by the driver or the peripheral.             *)
(***************************************************************************)
EXTENDS Integers, Sequences, FiniteSets, TLC

VARIABLES
    regs,     \* PL011.regs: the address the driver is bound to (0: none)
    pc,       \* the driver's position
    op,       \* the public operation in progress (or last completed)
    loc,      \* its arguments and locals
    ret,      \* the value last returned (by the operation or a callee)
    rxFifo,   \* peripheral: receive FIFO, oldest first
    txFifo,   \* peripheral: transmit FIFO, oldest first
    frOther,  \* peripheral: the flag register's bits other than RXFE, TXFF
    mem,      \* peripheral: the plain read-write registers, by field name
    lbe,      \* peripheral: loopback configured
    lay,      \* the layout of PL011_Regs, as far as it is laid out
    h         \* history (observation only)

vars == <<regs, pc, op, loc, ret, rxFifo, txFifo, frOther, mem, lbe, lay, h>>
hwVars == <<rxFifo, txFifo, frOther, mem, lbe>>

---------------------------------------------------------------------------
(* Bounds of the model.                                                    *)

\* depth of each FIFO of the modelled peripheral
FifoDepth == 2
\* how many distinct sample bytes travel through the general scenarios
NumBytes == 3
\* longest buffer / string handed to a slice operation
MaxBuf == 2
\* initial register values cover every pattern of the low RegBits bits,
\* and the complement of each within 32 bits
RegBits == 5
\* addresses handed to new() are 0 .. MaxAddr
MaxAddr == 3

---------------------------------------------------------------------------
(* Machine words.  A u32 is the set of the positions of its 1 bits, so    *)
(* that all 32 bits are there; a u8 is a number 0..255.                    *)

\* width of a register (RW<u32>, RO<u32>, WO<u32>) and of a byte (u8)
U32Width == 32
U8Width == 8

Words == SUBSET (0 .. U32Width - 1)

\* the u32 whose value is n (n below 2^31)
W(n) == {i \in 0 .. U32Width - 2 : (n \div 2 ^ i) % 2 = 1}

\* the value of a u32 whose top bit is clear
RECURSIVE Val(_)
Val(w) ==
    IF w = {} THEN 0
    ELSE LET i == CHOOSE j \in w : TRUE IN 2 ^ i + Val(w \ {i})

\* a & b, a | b, !a on u32
BitAnd(a, b) == a \cap b
BitOr(a, b) == a \cup b
BitNot32(a) == (0 .. U32Width - 1) \ a

\* w as u8
AsU8(w) == Val({i \in w : i < U8Width})
\* b as u32
AsU32(b) == W(b)

\* the i-th sample byte: 0, 85, 170, 255, 84, ...
SampleByte(i) == (i * 85) % (2 ^ U8Width)
ByteVals == {SampleByte(i) : i \in 0 .. NumBytes - 1}
AllBytes == 0 .. 2 ^ U8Width - 1

---------------------------------------------------------------------------
(* The peripheral.                                                         *)

\* the flag register's bits: receive FIFO empty, transmit FIFO full
RXFE == 16
TXFF == 32

\* values of the flag register's other bits (busy, modem lines, RXFF, TXFE,
\* and bits a simulated register block may hold): none has RXFE or TXFF
OtherFlagVals == {W(0), W(207), BitNot32(W(RXFE + TXFF))}

\* what a read of uartfr returns
FlagReg ==
    frOther \cup (IF rxFifo = <<>> THEN W(RXFE) ELSE {})
            \cup (IF Len(txFifo) >= FifoDepth THEN W(TXFF) ELSE {})

\* bits 8.. of a data-register read: error status / don't-care
StatusVals == {{}, 8 .. 11, 8 .. U32Width - 1}

\* what a read of uartdr may return: the oldest received byte under any
\* status bits; with nothing received, the value is unspecified
DrReadWords ==
    IF rxFifo = <<>> THEN {W(b) \cup s : b \in ByteVals, s \in StatusVals}
    ELSE {W(Head(rxFifo)) \cup s : s \in StatusVals}

RxAfterRead == IF rxFifo = <<>> THEN rxFifo ELSE Tail(rxFifo)

\* a write of w to uartdr queues its low 8 bits for transmission (dropped when
\* the transmit FIFO is full) and, in loopback, in the receive FIFO as well
TxAfterWrite(w) ==
    IF Len(txFifo) < FifoDepth THEN Append(txFifo, AsU8(w)) ELSE txFifo

RxAfterWrite(w) ==
    IF lbe /\ Len(rxFifo) < FifoDepth THEN Append(rxFifo, AsU8(w)) ELSE rxFifo

---------------------------------------------------------------------------
(* The peripheral's own steps.                                             *)

\* the shifter sends the oldest queued byte
HwTransmit ==
    /\ txFifo # <<>>
    /\ txFifo' = Tail(txFifo)
    /\ UNCHANGED <<lay, regs, pc, op, loc, ret, rxFifo, frOther, mem, lbe, h>>

\* a byte, one of bs, arrives on the line (the line is cut off in loopback)
HwReceiveOf(bs) ==
    /\ ~lbe
    /\ Len(rxFifo) < FifoDepth
    /\ \E b \in bs : rxFifo' = Append(rxFifo, b)
    /\ h' = [h EXCEPT !.rxEvent = "arrived", !.produced = TRUE]
    /\ UNCHANGED <<lay, regs, pc, op, loc, ret, txFifo, frOther, mem, lbe>>

HwReceive == HwReceiveOf(ByteVals)

\* the flag register's other bits change
HwFlags ==
    /\ \E f \in OtherFlagVals \ {frOther} : frOther' = f
    /\ UNCHANGED <<lay, regs, pc, op, loc, ret, rxFifo, txFifo, mem, lbe, h>>

---------------------------------------------------------------------------
(* Values returned, and the driver's locals.                               *)

RetNone == [tag |-> "none", n |-> 0]
RetUnit == [tag |-> "unit", n |-> 0]
RetBool(b) == [tag |-> "bool", n |-> IF b THEN 1 ELSE 0]
RetU8(x) == [tag |-> "u8", n |-> x]
RetUsize(k) == [tag |-> "usize", n |-> k]
RetDriver(a) == [tag |-> "PL011", n |-> a]
Panic == [tag |-> "panic", n |-> 0]
Ok == [tag |-> "Ok", n |-> 0]
OkU8(x) == [tag |-> "Ok_u8", n |-> x]
WouldBlock == [tag |-> "WouldBlock", n |-> 0]
FmtError == [tag |-> "fmt_Error", n |-> 0]

Loc0 ==
    [addr |-> 0,        \* new: the address given
     data |-> 0,        \* the byte to write
     buf |-> <<>>,      \* the slice given
     i |-> 0,           \* how much of it is done
     enable |-> FALSE,  \* a toggle's argument
     reg |-> {}]        \* a toggle's copy of the register

---------------------------------------------------------------------------
(* History.                                                                *)

NoCall == [op |-> "none", enable |-> FALSE]

\* the operations whose effect is compared with the peripheral as it was
SnapOps ==
    {"new", "has_incoming_data", "is_writeable", "enable_rx_interrupt",
     "set_fifo_mode", "log_status", "read", "write", "flush"}
\* the operations whose effect is compared with the one before as well
PairOps == {"enable_rx_interrupt", "set_fifo_mode", "log_status"}

\* no second actor has come between a read of a register and its write-back
NoRace == [reg |-> "none", bit |-> 0, set |-> FALSE]

NoSnap == [rx |-> <<>>, tx |-> <<>>, fr |-> {}, mem |-> <<>>]
Snap(o) ==
    IF ~h.watch THEN NoSnap
    ELSE IF o \in SnapOps
    THEN [rx |-> rxFifo, tx |-> txFifo, fr |-> frOther, mem |-> mem]
    ELSE IF o = "read_bytes" THEN [NoSnap EXCEPT !.rx = rxFifo]
    ELSE NoSnap

H0 ==
    [watch |-> FALSE,     \* whether the peripheral is recorded at each call
     trace |-> FALSE,     \* whether the words read from uartdr are recorded
     drIn |-> <<>>,       \* those words, of the operation in progress
     rd |-> {},           \* registers read by the operation in progress
     wr |-> {},           \* registers written by it
     spun |-> FALSE,      \* a poll of it found the port not ready
     sent |-> <<>>,       \* bytes handed to the latest write operation
     drLog |-> <<>>,      \* words it wrote to uartdr, in order
     rxEvent |-> "none",  \* the receive FIFO's latest event
     seenEvent |-> "none",\* rxEvent when has_incoming_data last read uartfr
     buf0 |-> <<>>,       \* the slice given to the operation in progress
     hw0 |-> NoSnap,      \* the peripheral when the operation was called
     hw1 |-> NoSnap,      \* the peripheral when the one before was called
     prev |-> NoCall,     \* the operation called before this one
     produced |-> FALSE,  \* a byte arrived during it
     raced |-> NoRace,    \* what a second actor changed between the read and
                          \* the write-back of the toggle in progress
     fault |-> "none"]    \* overrun, underrun, or index out of bounds

\* the history after the operation in progress reads rds and writes wrs
Touch(hh, rds, wrs) == [hh EXCEPT !.rd = @ \cup rds, !.wr = @ \cup wrs]

\* the history after a read of uartdr
AfterDrRead(hh) ==
    [Touch(hh, {"uartdr"}, {}) EXCEPT
        !.rxEvent = IF Len(rxFifo) = 1 THEN "drained" ELSE "read",
        !.fault = IF rxFifo = <<>> THEN "underrun" ELSE @]

\* the history after a read of uartdr that returned w
AfterDrReadOf(hh, w) ==
    [AfterDrRead(hh) EXCEPT !.drIn = IF hh.trace THEN Append(@, w) ELSE @]

\* the history after a write of w to uartdr
AfterDrWrite(hh, w) ==
    [Touch(hh, {}, {"uartdr"}) EXCEPT
        !.drLog = Append(@, w),
        !.rxEvent = IF RxAfterWrite(w) # rxFifo THEN "arrived" ELSE @,
        !.fault = IF Len(txFifo) >= FifoDepth THEN "overrun" ELSE @]

WriteOps == {"write_byte", "write_bytes", "write", "write_str"}

\* the history when the client calls o with arguments l
AtCall(o, l) ==
    [h EXCEPT !.rd = {}, !.wr = {}, !.spun = FALSE, !.produced = FALSE,
              !.drIn = <<>>, !.raced = NoRace,
              !.seenEvent = "none", !.buf0 = l.buf, !.hw0 = Snap(o),
              !.hw1 = IF h.watch /\ o \in PairOps THEN h.hw0 ELSE NoSnap,
              !.prev = IF h.watch /\ o \in PairOps
                       THEN [op |-> op, enable |-> loc.enable] ELSE NoCall,
              !.sent = IF o \in {"write_byte", "write"} THEN <<l.data>>
                       ELSE IF o \in WriteOps THEN l.buf ELSE @,
              !.drLog = IF o \in WriteOps THEN <<>> ELSE @]

---------------------------------------------------------------------------
(* The client.                                                             *)

\* where an operation starts
Entry(o) ==
    CASE o = "new" -> "new"
      [] o = "has_incoming_data" -> "hid"
      [] o = "is_writeable" -> "iw"
      [] o = "read_byte" -> "rb_spin"
      [] o = "write_byte" -> "wb_spin"
      [] o = "read_bytes" -> "rbs_check"
      [] o = "write_bytes" -> "wbs_next"
      [] o = "enable_rx_interrupt" -> "eri_read"
      [] o = "set_fifo_mode" -> "sfm_read"
      [] o = "log_status" -> "ls"
      [] o = "read" -> "sr"
      [] o = "write" -> "sw_flush"
      [] o = "flush" -> "fl"
      [] o = "write_str" -> "ws_next"

\* the client calls operation o with arguments l: new on no driver, the
\* methods on a constructed driver at rest
Call(o, l) ==
    /\ pc = (IF o = "new" THEN "start" ELSE "idle")
    /\ pc' = Entry(o)
    /\ op' = o
    /\ loc' = l
    /\ h' = AtCall(o, l)
    /\ UNCHANGED <<lay, regs, ret, hwVars>>

---------------------------------------------------------------------------
(* The driver: construction (lib.rs 182-185).                              *)

\* regs.as_mut(): None (0) for the null pointer
as_mut_unchecked(p) == [some |-> TRUE, ref |-> p]
as_mut(p) == [some |-> p # 0, ref |-> p]

\* unwrap() panics on None; otherwise Self { regs }
New ==
    /\ pc = "new"
    /\ LET r == as_mut(loc.addr) IN
         IF r.some
         THEN /\ regs' = r.ref
              /\ ret' = RetDriver(r.ref)
              /\ pc' = "idle"
         ELSE /\ regs' = regs
              /\ ret' = Panic
              /\ pc' = "aborted"
    /\ UNCHANGED <<lay, op, loc, hwVars, h>>

---------------------------------------------------------------------------
(* The driver: status queries (lib.rs 102-105, 130-133).                   *)

has_incoming_data_txff(uartfr) == BitAnd(uartfr, W(32)) = W(0)
has_incoming_data(uartfr) == BitAnd(uartfr, W(16)) = W(0)

is_writeable_rxfe(uartfr) == BitAnd(uartfr, W(16)) = W(0)
is_writeable(uartfr) == BitAnd(uartfr, W(32)) = W(0)

HasIncomingDataOp ==
    /\ pc = "hid"
    /\ LET uartfr == FlagReg IN
         ret' = RetBool(has_incoming_data(uartfr))
    /\ pc' = "idle"
    /\ h' = [Touch(h, {"uartfr"}, {}) EXCEPT !.seenEvent = h.rxEvent]
    /\ UNCHANGED <<lay, regs, op, loc, hwVars>>

IsWriteableOp ==
    /\ pc = "iw"
    /\ LET uartfr == FlagReg IN
         ret' = RetBool(is_writeable(uartfr))
    /\ pc' = "idle"
    /\ h' = Touch(h, {"uartfr"}, {})
    /\ UNCHANGED <<lay, regs, op, loc, hwVars>>

---------------------------------------------------------------------------
(* The driver: blocking byte I/O (lib.rs 110-116, 124-127).                *)

\* uartdr.read() & 0xff, as u8
read_byte_value_7bit(w) == AsU8(BitAnd(w, W(127)))
read_byte_value(w) == AsU8(BitAnd(w, W(255)))

\* data as u32
write_byte_word_7bit(data) == AsU32(data % 128)
write_byte_word(data) == AsU32(data)

\* where read_byte and write_byte return to
AfterReadByte == IF op = "read_bytes" THEN "rbs_store" ELSE "idle"
AfterWriteByte == IF op = "write_bytes" THEN "wbs_next" ELSE "idle"

\* while !self.has_incoming_data() {}
ReadByteSpin ==
    /\ pc = "rb_spin"
    /\ LET uartfr == FlagReg IN
         IF has_incoming_data(uartfr)
         THEN /\ pc' = "rb_data"
              /\ h' = Touch(h, {"uartfr"}, {})
         ELSE /\ pc' = "rb_spin"
              /\ h' = [Touch(h, {"uartfr"}, {}) EXCEPT !.spun = TRUE]
    /\ UNCHANGED <<lay, regs, op, loc, ret, hwVars>>

ReadByteData ==
    /\ pc = "rb_data"
    /\ \E w \in DrReadWords :
         /\ ret' = RetU8(read_byte_value(w))
         /\ h' = AfterDrReadOf(h, w)
    /\ rxFifo' = RxAfterRead
    /\ pc' = AfterReadByte
    /\ UNCHANGED <<lay, regs, op, loc, txFifo, frOther, mem, lbe>>

\* while !self.is_writeable() {}
WriteByteSpin ==
    /\ pc = "wb_spin"
    /\ LET uartfr == FlagReg IN
         IF is_writeable(uartfr)
         THEN /\ pc' = "wb_data"
              /\ h' = Touch(h, {"uartfr"}, {})
         ELSE /\ pc' = "wb_spin"
              /\ h' = [Touch(h, {"uartfr"}, {}) EXCEPT !.spun = TRUE]
    /\ UNCHANGED <<lay, regs, op, loc, ret, hwVars>>

WriteByteData_rsr ==
    /\ pc = "wb_data"
    /\ LET w == write_byte_word(loc.data) IN
         /\ mem' = [mem EXCEPT !["uartrsr"] = w]
         /\ h' = Touch(h, {}, {"uartrsr"})
    /\ ret' = RetUnit
    /\ pc' = AfterWriteByte
    /\ UNCHANGED <<lay, regs, op, loc, rxFifo, txFifo, frOther, lbe>>
WriteByteData ==
    /\ pc = "wb_data"
    /\ LET w == write_byte_word(loc.data) IN
         /\ txFifo' = TxAfterWrite(w)
         /\ rxFifo' = RxAfterWrite(w)
         /\ h' = AfterDrWrite(h, w)
    /\ ret' = RetUnit
    /\ pc' = AfterWriteByte
    /\ UNCHANGED <<lay, regs, op, loc, frOther, mem, lbe>>

---------------------------------------------------------------------------
(* The driver: slice I/O.  read_bytes and write_bytes are not in lib.rs;   *)
(* they are modelled from their description: read_bytes fills the buffer   *)
(* through read_byte while has_incoming_data holds and the buffer has      *)
(* room; write_bytes hands every byte, in order, to write_byte.            *)

\* while read < bytes.len() && self.has_incoming_data()
ReadBytesCheck ==
    /\ pc = "rbs_check"
    /\ IF loc.i < Len(loc.buf)
       THEN LET uartfr == FlagReg IN
              /\ h' = Touch(h, {"uartfr"}, {})
              /\ IF has_incoming_data(uartfr)
                 THEN pc' = "rb_spin" /\ ret' = ret
                 ELSE pc' = "idle" /\ ret' = RetUsize(loc.i)
       ELSE /\ h' = h
            /\ pc' = "idle"
            /\ ret' = RetUsize(loc.i)
    /\ UNCHANGED <<lay, regs, op, loc, hwVars>>

\* bytes[read] = self.read_byte(); read += 1
ReadBytesStore ==
    /\ pc = "rbs_store"
    /\ IF loc.i < Len(loc.buf)
       THEN /\ loc' = [loc EXCEPT !.buf[loc.i + 1] = ret.n, !.i = @ + 1]
            /\ h' = h
       ELSE /\ loc' = loc
            /\ h' = [h EXCEPT !.fault = "bounds"]
    /\ pc' = "rbs_check"
    /\ UNCHANGED <<lay, regs, op, ret, hwVars>>

\* for b in bytes { self.write_byte(*b) }
WriteBytesNext ==
    /\ pc = "wbs_next"
    /\ IF loc.i < Len(loc.buf)
       THEN /\ loc' = [loc EXCEPT !.data = loc.buf[loc.i + 1], !.i = @ + 1]
            /\ pc' = "wb_spin"
            /\ ret' = ret
       ELSE /\ loc' = loc
            /\ pc' = "idle"
            /\ ret' = RetUnit
    /\ UNCHANGED <<lay, regs, op, hwVars, h>>

---------------------------------------------------------------------------
(* The driver: feature toggles and status report.  Not in lib.rs either;   *)
(* modelled from their description: read the register, OR in or AND out    *)
(* the one bit, write it back; log_status only reads uartcr.               *)

\* receive-interrupt mask bit of uartimsc, FIFO-enable bit of uartlcr_h
RXIM == 16
FEN == 16
\* uartcr: UART enabled, transmit enabled, receive enabled
UARTEN == 1
TXE == 256
RXE == 512

\* reg |= bit, reg &= !bit
toggle_bit_overwrite(reg, bit, enable) == IF enable THEN W(bit) ELSE W(0)
toggle_bit(reg, bit, enable) ==
    IF enable THEN BitOr(reg, W(bit)) ELSE BitAnd(reg, BitNot32(W(bit)))

ToggleRead(at, next, r) ==
    /\ pc = at
    /\ loc' = [loc EXCEPT !.reg = mem[r]]
    /\ pc' = next
    /\ h' = Touch(h, {r}, {})
    /\ UNCHANGED <<lay, regs, op, ret, hwVars>>

ToggleWrite_fresh(at, r, bit) ==
    /\ pc = at
    /\ mem' = [mem EXCEPT ![r] = toggle_bit(mem[r], bit, loc.enable)]
    /\ pc' = "idle"
    /\ ret' = RetUnit
    /\ h' = Touch(h, {}, {r})
    /\ UNCHANGED <<lay, regs, op, loc, rxFifo, txFifo, frOther, lbe>>
ToggleWrite(at, r, bit) ==
    /\ pc = at
    /\ mem' = [mem EXCEPT ![r] = toggle_bit(loc.reg, bit, loc.enable)]
    /\ pc' = "idle"
    /\ ret' = RetUnit
    /\ h' = Touch(h, {}, {r})
    /\ UNCHANGED <<lay, regs, op, loc, rxFifo, txFifo, frOther, lbe>>

EnableRxInterruptRead == ToggleRead("eri_read", "eri_write", "uartimsc")
EnableRxInterruptWrite == ToggleWrite("eri_write", "uartimsc", RXIM)
SetFifoModeRead == ToggleRead("sfm_read", "sfm_write", "uartlcr_h")
SetFifoModeWrite == ToggleWrite("sfm_write", "uartlcr_h", FEN)

\* the three lines handed to the diagnostics sink
StatusReport(uartcr) ==
    [tag |-> "status",
     n |-> (IF BitAnd(uartcr, W(RXE)) # W(0) THEN 4 ELSE 0)
         + (IF BitAnd(uartcr, W(TXE)) # W(0) THEN 2 ELSE 0)
         + (IF BitAnd(uartcr, W(UARTEN)) # W(0) THEN 1 ELSE 0)]

LogStatus ==
    /\ pc = "ls"
    /\ ret' = StatusReport(mem["uartcr"])
    /\ pc' = "idle"
    /\ h' = Touch(h, {"uartcr"}, {})
    /\ UNCHANGED <<lay, regs, op, loc, hwVars>>

---------------------------------------------------------------------------
(* The driver: embedded_hal::serial (lib.rs 136-165) and fmt::Write        *)
(* (lib.rs 167-177).                                                       *)

\* where serial::Write::write returns to
AfterWrite == IF op = "write_str" THEN "ws_block" ELSE "idle"

\* if self.has_incoming_data() { Ok(uartdr.read() & 0xff) } else WouldBlock
SerialRead ==
    /\ pc = "sr"
    /\ LET uartfr == FlagReg IN
         IF has_incoming_data(uartfr)
         THEN pc' = "sr_data" /\ ret' = ret
         ELSE pc' = "idle" /\ ret' = WouldBlock
    /\ h' = Touch(h, {"uartfr"}, {})
    /\ UNCHANGED <<lay, regs, op, loc, hwVars>>

SerialReadData ==
    /\ pc = "sr_data"
    /\ \E w \in DrReadWords :
         /\ ret' = OkU8(read_byte_value(w))
         /\ h' = AfterDrReadOf(h, w)
    /\ rxFifo' = RxAfterRead
    /\ pc' = "idle"
    /\ UNCHANGED <<lay, regs, op, loc, txFifo, frOther, mem, lbe>>

\* self.flush()?
SerialWriteFlush_unchecked ==
    /\ pc = "sw_flush"
    /\ pc' = "sw_data"
    /\ ret' = ret
    /\ h' = Touch(h, {"uartfr"}, {})
    /\ UNCHANGED <<lay, regs, op, loc, hwVars>>
SerialWriteFlush ==
    /\ pc = "sw_flush"
    /\ LET uartfr == FlagReg IN
         IF is_writeable(uartfr)
         THEN pc' = "sw_data" /\ ret' = ret
         ELSE pc' = AfterWrite /\ ret' = WouldBlock
    /\ h' = Touch(h, {"uartfr"}, {})
    /\ UNCHANGED <<lay, regs, op, loc, hwVars>>

\* uartdr.write(word as u32); Ok(())
SerialWriteData ==
    /\ pc = "sw_data"
    /\ LET w == AsU32(loc.data) IN
         /\ txFifo' = TxAfterWrite(w)
         /\ rxFifo' = RxAfterWrite(w)
         /\ h' = AfterDrWrite(h, w)
    /\ ret' = Ok
    /\ pc' = AfterWrite
    /\ UNCHANGED <<lay, regs, op, loc, frOther, mem, lbe>>

\* if self.is_writeable() { Ok(()) } else WouldBlock
SerialFlush ==
    /\ pc = "fl"
    /\ LET uartfr == FlagReg IN
         ret' = IF is_writeable(uartfr) THEN Ok ELSE WouldBlock
    /\ pc' = "idle"
    /\ h' = Touch(h, {"uartfr"}, {})
    /\ UNCHANGED <<lay, regs, op, loc, hwVars>>

\* for b in s.as_bytes().iter() { ... } Ok(())
WriteStrNext ==
    /\ pc = "ws_next"
    /\ IF loc.i < Len(loc.buf)
       THEN /\ loc' = [loc EXCEPT !.data = loc.buf[loc.i + 1], !.i = @ + 1]
            /\ pc' = "sw_flush"
            /\ ret' = ret
       ELSE /\ loc' = loc
            /\ pc' = "idle"
            /\ ret' = Ok
    /\ UNCHANGED <<lay, regs, op, hwVars, h>>

\* nb::block!(self.write(*b)): WouldBlock retries, another error ends
\* write_str with fmt::Error, Ok goes on to the next byte
WriteStrBlock_no_retry ==
    /\ pc = "ws_block"
    /\ IF ret = Ok
       THEN pc' = "ws_next" /\ ret' = ret
       ELSE pc' = "idle" /\ ret' = FmtError
    /\ h' = h
    /\ UNCHANGED <<lay, regs, op, loc, hwVars>>
WriteStrBlock ==
    /\ pc = "ws_block"
    /\ CASE ret = WouldBlock ->
              /\ pc' = "sw_flush"
              /\ ret' = ret
              /\ h' = [h EXCEPT !.spun = TRUE]
         [] ret = Ok ->
              /\ pc' = "ws_next"
              /\ ret' = ret
              /\ h' = h
         [] OTHER ->
              /\ pc' = "idle"
              /\ ret' = FmtError
              /\ h' = h
    /\ UNCHANGED <<lay, regs, op, loc, hwVars>>

---------------------------------------------------------------------------
(* The register map (lib.rs 24-73): #[repr(C)], every field a u32 or an    *)
(* array of u32, so each field starts where the one before it ends.        *)

\* the fields in declaration order, with their lengths in u32
Fields_short_reserved0 ==
    << [name |-> "uartdr", len |-> 1], [name |-> "uartrsr", len |-> 1],
       [name |-> "reserved0", len |-> 3], [name |-> "uartfr", len |-> 1],
       [name |-> "reserved1", len |-> 1], [name |-> "uartilpr", len |-> 1],
       [name |-> "uartibrd", len |-> 1], [name |-> "uartfbrd", len |-> 1],
       [name |-> "uartlcr_h", len |-> 1], [name |-> "uartcr", len |-> 1],
       [name |-> "uartifls", len |-> 1], [name |-> "uartimsc", len |-> 1],
       [name |-> "uartris", len |-> 1], [name |-> "uartmis", len |-> 1],
       [name |-> "uarticr", len |-> 1], [name |-> "uartdmacr", len |-> 1],
       [name |-> "reserved2", len |-> 997],
       [name |-> "uartperiphid0", len |-> 1],
       [name |-> "uartperiphid1", len |-> 1],
       [name |-> "uartperiphid2", len |-> 1],
       [name |-> "uartperiphid3", len |-> 1],
       [name |-> "uartpcellid0", len |-> 1],
       [name |-> "uartpcellid1", len |-> 1],
       [name |-> "uartpcellid2", len |-> 1],
       [name |-> "uartpcellid3", len |-> 1] >>
Fields ==
    << [name |-> "uartdr", len |-> 1], [name |-> "uartrsr", len |-> 1],
       [name |-> "reserved0", len |-> 4], [name |-> "uartfr", len |-> 1],
       [name |-> "reserved1", len |-> 1], [name |-> "uartilpr", len |-> 1],
       [name |-> "uartibrd", len |-> 1], [name |-> "uartfbrd", len |-> 1],
       [name |-> "uartlcr_h", len |-> 1], [name |-> "uartcr", len |-> 1],
       [name |-> "uartifls", len |-> 1], [name |-> "uartimsc", len |-> 1],
       [name |-> "uartris", len |-> 1], [name |-> "uartmis", len |-> 1],
       [name |-> "uarticr", len |-> 1], [name |-> "uartdmacr", len |-> 1],
       [name |-> "reserved2", len |-> 997],
       [name |-> "uartperiphid0", len |-> 1],
       [name |-> "uartperiphid1", len |-> 1],
       [name |-> "uartperiphid2", len |-> 1],
       [name |-> "uartperiphid3", len |-> 1],
       [name |-> "uartpcellid0", len |-> 1],
       [name |-> "uartpcellid1", len |-> 1],
       [name |-> "uartpcellid2", len |-> 1],
       [name |-> "uartpcellid3", len |-> 1] >>

\* size_of::<u32>()
WordBytes == U32Width \div 8

\* the layout before anything is laid out: at field f (done: past the
\* last), element k of it, byte offset off from the base address
Lay0 == [f |-> 1, k |-> 0, off |-> 0]

\* the next u32 of the field being laid out
LayoutElement ==
    /\ lay.f <= Len(Fields)
    /\ lay.k + 1 < Fields[lay.f].len
    /\ lay' = [lay EXCEPT !.k = @ + 1, !.off = @ + WordBytes]
    /\ UNCHANGED <<regs, pc, op, loc, ret, hwVars, h>>

\* the field is complete: the next one starts where it ends
LayoutField ==
    /\ lay.f <= Len(Fields)
    /\ lay.k + 1 = Fields[lay.f].len
    /\ lay' = [f |-> lay.f + 1, k |-> 0, off |-> lay.off + WordBytes]
    /\ UNCHANGED <<regs, pc, op, loc, ret, hwVars, h>>

---------------------------------------------------------------------------
(* Initial states.                                                         *)

\* the fields software can write besides uartdr (RW<u32> and WO<u32>)
RwRegs ==
    {"uartrsr", "uartilpr", "uartibrd", "uartfbrd", "uartlcr_h", "uartcr",
     "uartifls", "uartimsc", "uarticr", "uartdmacr"}

\* FIFO contents of at most n bytes
Fifos(n) == UNION {[1 .. k -> ByteVals] : k \in 0 .. n}

\* a FIFO holding k bytes
Fill(k) == [j \in 1 .. k |-> SampleByte(0)]

\* register values: every pattern of the low RegBits bits, and its complement
RegVals ==
    LET low == {W(v) : v \in 0 .. 2 ^ RegBits - 1} IN
      low \cup {BitNot32(v) : v \in low}

\* every register holding v
MemAll(v) == [r \in RwRegs |-> v]

\* a driver (constructed and at rest, or not yet constructed) over a
\* peripheral whose FIFOs, flag bits and registers are drawn from the sets
InitObs(at, rxs, txs, others, mems, lbes, h0) ==
    /\ regs = (IF at = "start" THEN 0 ELSE 1)
    /\ pc = at
    /\ op = "none"
    /\ loc = Loc0
    /\ ret = RetNone
    /\ rxFifo \in rxs
    /\ txFifo \in txs
    /\ frOther \in others
    /\ mem \in mems
    /\ lbe \in lbes
    /\ lay = Lay0
    /\ h = h0

InitWith(at, rxs, txs, others, mems, lbes, watch) ==
    InitObs(at, rxs, txs, others, mems, lbes, [H0 EXCEPT !.watch = watch])

\* the buffers a client hands over to be filled: of every length up to
\* MaxBuf, every slot holding a byte that no FIFO holds
Bufs0(n) == [j \in 1 .. n |-> SampleByte(NumBytes)]
Bufs == {Bufs0(n) : n \in 0 .. MaxBuf}

\* the byte sequences a client hands over to be written
Strs == UNION {[1 .. n -> ByteVals] : n \in 0 .. MaxBuf}

\* two bytes, alternating, are enough to tell the order of what is written
LiveBytes == {SampleByte(0), SampleByte(NumBytes - 1)}
LiveStr(n) ==
    [j \in 1 .. n |-> IF j % 2 = 1 THEN SampleByte(NumBytes - 1)
                      ELSE SampleByte(0)]

---------------------------------------------------------------------------
(* The whole driver: a client that constructs it and then calls any        *)
(* operation with any argument, over a peripheral that receives and sends  *)
(* at any time.                                                            *)

Init ==
    InitWith("start", {Fill(0)}, {Fill(0)}, {W(0)}, {MemAll(W(0))},
             {FALSE}, FALSE)

Client ==
    \/ Call("new", [Loc0 EXCEPT !.addr = 1])
    \/ \E o \in {"has_incoming_data", "is_writeable", "read_byte",
                 "log_status", "read", "flush"} : Call(o, Loc0)
    \/ \E o \in {"write_byte", "write"}, b \in LiveBytes :
         Call(o, [Loc0 EXCEPT !.data = b])
    \/ \E n \in 0 .. MaxBuf :
         \/ Call("read_bytes", [Loc0 EXCEPT !.buf = Bufs0(n)])
         \/ Call("write_bytes", [Loc0 EXCEPT !.buf = LiveStr(n)])
         \/ Call("write_str", [Loc0 EXCEPT !.buf = LiveStr(n)])
    \/ \E o \in {"enable_rx_interrupt", "set_fifo_mode"}, e \in BOOLEAN :
         Call(o, [Loc0 EXCEPT !.enable = e])

Driver ==
    \/ New
    \/ HasIncomingDataOp
    \/ IsWriteableOp
    \/ ReadByteSpin
    \/ ReadByteData
    \/ WriteByteSpin
    \/ WriteByteData
    \/ ReadBytesCheck
    \/ ReadBytesStore
    \/ WriteBytesNext
    \/ EnableRxInterruptRead
    \/ EnableRxInterruptWrite
    \/ SetFifoModeRead
    \/ SetFifoModeWrite
    \/ LogStatus
    \/ SerialRead
    \/ SerialReadData
    \/ SerialWriteFlush
    \/ SerialWriteData
    \/ SerialFlush
    \/ WriteStrNext
    \/ WriteStrBlock

Peripheral ==
    \/ HwReceiveOf({SampleByte(0)})
    \/ HwTransmit

Next == Client \/ Driver \/ Peripheral

Spec == Init /\ [][Next]_vars

\* the positions at which the driver is about to read, or write, uartdr
DrReadPcs == {"rb_data", "sr_data"}
DrWritePcs == {"wb_data", "sw_data"}

\* C12: with one owner and a peripheral that on its own only sends from the
\* transmit FIFO and only receives into the receive FIFO, the driver never
\* reads uartdr while the receive FIFO is empty nor writes it while the
\* transmit FIFO is full: whenever it is about to access uartdr it has read
\* uartfr, and the ready condition that read observed holds still.
C12_DataAccessWhenReady ==
    /\ h.fault \notin {"underrun", "overrun"}
    /\ pc \in DrReadPcs => ("uartfr" \in h.rd /\ rxFifo # <<>>)
    /\ pc \in DrWritePcs => ("uartfr" \in h.rd /\ Len(txFifo) < FifoDepth)

\* write_str, having found the transmit FIFO full, wrote its second byte
\* into the one place the peripheral had freed meanwhile
C12_Witness ==
    /\ op = "write_str"
    /\ pc = "ws_block"
    /\ ret = Ok
    /\ h.spun
    /\ Len(h.drLog) = 2
    /\ Len(txFifo) = FifoDepth

---------------------------------------------------------------------------
(* Scenario: round trip through a loopback-configured peripheral.          *)

InitRoundTrip ==
    InitWith("idle", {<<>>}, Fifos(FifoDepth - 1), OtherFlagVals,
             {MemAll(W(0))}, {TRUE}, FALSE)

\* write_byte(b), then read_byte()
RoundTripClient ==
    \/ /\ op = "none"
       /\ \E b \in AllBytes : Call("write_byte", [Loc0 EXCEPT !.data = b])
    \/ /\ op = "write_byte"
       /\ Call("read_byte", Loc0)

NextRoundTrip ==
    \/ RoundTripClient
    \/ ReadByteSpin
    \/ ReadByteData
    \/ WriteByteSpin
    \/ WriteByteData
    \/ HwTransmit
    \/ HwFlags

SpecRoundTrip == InitRoundTrip /\ [][NextRoundTrip]_vars

\* C1: on a loopback-configured peripheral, starting from an empty receive
\* FIFO, write_byte(b) followed by read_byte() returns b, for every byte
\* b in 0..255.
C1_RoundTrip ==
    (op = "read_byte" /\ pc = "idle") =>
        ret = RetU8(h.sent[1])

\* a round trip of a byte whose top bit is set, completed
C1_Witness ==
    /\ op = "read_byte"
    /\ pc = "idle"
    /\ h.sent = <<255>>
    /\ ret = RetU8(255)

---------------------------------------------------------------------------
(* Scenario: the receive side.  The client calls the receive operations    *)
(* in any order while bytes arrive on the line at any time.                *)


InitRead ==
    InitWith("idle", Fifos(FifoDepth), {Fill(0), Fill(FifoDepth)},
             OtherFlagVals, {MemAll(W(0))}, {FALSE}, TRUE)

ReadClient ==
    \/ Call("has_incoming_data", Loc0)
    \/ Call("read_byte", Loc0)
    \/ \E b \in Bufs : Call("read_bytes", [Loc0 EXCEPT !.buf = b])
    \/ Call("read", Loc0)

NextRead ==
    \/ ReadClient
    \/ HasIncomingDataOp
    \/ ReadByteSpin
    \/ ReadByteData
    \/ ReadBytesCheck
    \/ ReadBytesStore
    \/ SerialRead
    \/ SerialReadData
    \/ HwReceive
    \/ HwFlags

SpecRead == InitRead /\ [][NextRead]_vars

\* C2: read_bytes(buf) never writes past buf's length and never blocks; on
\* a receive FIFO holding k < len(buf) bytes, with no byte arriving
\* meanwhile, it returns exactly k and leaves buf[k:] as it was (k = 0: it
\* returns 0 whatever the buffer's size).
C2_ReadBytesShort ==
    /\ h.fault # "bounds"
    /\ pc = "rbs_store" => loc.i < Len(loc.buf)
    /\ op = "read_bytes" => ~h.spun
    /\ (op = "read_bytes" /\ pc = "idle" /\ ~h.produced) =>
         LET k == Len(h.hw0.rx)
             n == Len(h.buf0)
         IN /\ Len(loc.buf) = n
            /\ k = 0 => ret = RetUsize(0)
            /\ k < n => /\ ret = RetUsize(k)
                        /\ \A j \in k + 1 .. n : loc.buf[j] = h.buf0[j]

\* a short read: one byte ready, a buffer of two, the first slot filled with
\* a new value and the second left alone
C2_Witness ==
    /\ op = "read_bytes"
    /\ pc = "idle"
    /\ ~h.produced
    /\ Len(h.hw0.rx) = 1
    /\ Len(h.buf0) = 2
    /\ ret = RetUsize(1)
    /\ loc.buf[1] # h.buf0[1]
    /\ loc.buf[2] = h.buf0[2]

\* C6: has_incoming_data() returns false right after a read that drained the
\* receive FIFO (nothing having arrived since) and true right after a byte
\* became available, whatever operations came before.
C6_HasIncomingDataTracksFifo ==
    (op = "has_incoming_data" /\ pc = "idle") =>
        /\ h.seenEvent = "drained" => ret = RetBool(FALSE)
        /\ h.seenEvent = "arrived" => ret = RetBool(TRUE)

\* the query answering false after a read emptied the FIFO
C6_Witness ==
    /\ op = "has_incoming_data"
    /\ pc = "idle"
    /\ h.seenEvent = "drained"
    /\ ret = RetBool(FALSE)
    /\ rxFifo = <<>>

\* the smaller of two numbers
Min(a, b) == IF a <= b THEN a ELSE b

\* C13: with no byte arriving meanwhile, read_bytes(buf) on a receive FIFO
\* holding k bytes returns c = min(k, len(buf)), has stored the FIFO's first
\* c bytes in buf[0..c) in FIFO order, and has consumed exactly those: the
\* other k - c bytes are still in the FIFO, in their order.
C13_ReadBytesCount ==
    (op = "read_bytes" /\ pc = "idle" /\ ~h.produced) =>
        LET k == Len(h.hw0.rx)
            n == Len(h.buf0)
            c == Min(k, n)
        IN /\ ret = RetUsize(c)
           /\ Len(loc.buf) = n
           /\ \A j \in 1 .. c : loc.buf[j] = h.hw0.rx[j]
           /\ rxFifo = SubSeq(h.hw0.rx, c + 1, k)

\* a full buffer: two different bytes ready, a buffer of one; the first is
\* in the buffer and the second still in the FIFO
C13_Witness ==
    /\ op = "read_bytes"
    /\ pc = "idle"
    /\ ~h.produced
    /\ Len(h.hw0.rx) = 2
    /\ h.hw0.rx[1] # h.hw0.rx[2]
    /\ Len(h.buf0) = 1
    /\ ret = RetUsize(1)
    /\ loc.buf = <<h.hw0.rx[1]>>
    /\ rxFifo = <<h.hw0.rx[2]>>

---------------------------------------------------------------------------
(* Scenario: the transmit side.  The client calls the transmit operations  *)
(* in any order while the peripheral drains its FIFO at any time.          *)

\* the words that n calls of write_byte, one per byte of bs, hand to uartdr
Words32(bs) == [j \in 1 .. Len(bs) |-> W(bs[j])]

InitWrite ==
    InitWith("idle", {Fill(0), Fill(1)}, Fifos(FifoDepth), OtherFlagVals,
             {MemAll(W(0))}, {FALSE}, FALSE)

WriteClient ==
    \/ Call("is_writeable", Loc0)
    \/ \E b \in ByteVals : Call("write_byte", [Loc0 EXCEPT !.data = b])
    \/ \E bs \in Strs : Call("write_bytes", [Loc0 EXCEPT !.buf = bs])

NextWrite ==
    \/ WriteClient
    \/ IsWriteableOp
    \/ WriteByteSpin
    \/ WriteByteData
    \/ WriteBytesNext
    \/ HwTransmit
    \/ HwFlags

SpecWrite == InitWrite /\ [][NextWrite]_vars

\* C3: write_bytes([b0..bn]) writes to uartdr what one write_byte call per
\* byte writes, in the same order: at every moment the words written so far
\* are the first words of b0..bn, on return they are all of them, and none
\* is written while the transmit FIFO is full, under every drain schedule.
C3_WriteBytesAsWriteByte ==
    (op \in {"write_byte", "write_bytes"}) =>
        /\ h.fault # "overrun"
        /\ Len(h.drLog) <= Len(h.sent)
        /\ h.drLog = SubSeq(Words32(h.sent), 1, Len(h.drLog))
        /\ pc = "idle" => h.drLog = Words32(h.sent)

\* write_bytes of two different bytes, complete, having waited for room
C3_Witness ==
    /\ op = "write_bytes"
    /\ pc = "idle"
    /\ h.spun
    /\ Len(h.sent) = 2
    /\ h.sent[1] > h.sent[2]
    /\ h.drLog = <<W(h.sent[1]), W(h.sent[2])>>

---------------------------------------------------------------------------
(* Scenario: the feature toggles.  The client calls two of them, one after *)
(* the other, on registers holding any value; nothing else touches the     *)
(* registers (single owner).                                               *)

InitToggle ==
    InitWith("idle", {Fill(0)}, {Fill(0)}, {W(0)},
             {MemAll(v) : v \in RegVals}, {FALSE}, TRUE)

ToggleClient ==
    /\ h.prev.op = "none"
    /\ \/ \E e \in BOOLEAN :
            Call("enable_rx_interrupt", [Loc0 EXCEPT !.enable = e])
       \/ \E e \in BOOLEAN :
            Call("set_fifo_mode", [Loc0 EXCEPT !.enable = e])
       \/ Call("log_status", Loc0)

NextToggle ==
    \/ ToggleClient
    \/ EnableRxInterruptRead
    \/ EnableRxInterruptWrite
    \/ SetFifoModeRead
    \/ SetFifoModeWrite
    \/ LogStatus

SpecToggle == InitToggle /\ [][NextToggle]_vars

\* operation o with argument TRUE, then again with FALSE, both complete
PairDone(o) ==
    /\ op = o
    /\ pc = "idle"
    /\ ~loc.enable
    /\ h.prev = [op |-> o, enable |-> TRUE]

\* every register but r, and both FIFOs, are as they were before the pair
OthersAsBefore(r) ==
    /\ \A q \in RwRegs \ {r} : mem[q] = h.hw1.mem[q]
    /\ rxFifo = h.hw1.rx
    /\ txFifo = h.hw1.tx

\* C4: enable_rx_interrupt(true) then enable_rx_interrupt(false) leaves every
\* bit of uartimsc other than bit 4 as it was before the first call, for
\* every initial value, and writes no register but uartimsc.
C4_RxInterruptIsolation ==
    /\ op = "enable_rx_interrupt" => h.wr \subseteq {"uartimsc"}
    /\ PairDone("enable_rx_interrupt") =>
         /\ mem["uartimsc"] \ {4} = h.hw1.mem["uartimsc"] \ {4}
         /\ OthersAsBefore("uartimsc")

\* the pair done on a mask register that had every bit set
C4_Witness ==
    /\ PairDone("enable_rx_interrupt")
    /\ h.hw1.mem["uartimsc"] = BitNot32(W(0))
    /\ mem["uartimsc"] = BitNot32(W(16))
    /\ h.wr = {"uartimsc"}

\* C5 as stated: set_fifo_mode(true) then set_fifo_mode(false) restores bit 4
\* of uartlcr_h to its original state and touches no other bit, so the
\* register is as it was, for every initial value.
C5_FifoBitRestored ==
    PairDone("set_fifo_mode") => mem["uartlcr_h"] = h.hw1.mem["uartlcr_h"]

\* C5 as amended: set_fifo_mode(true) then set_fifo_mode(false) leaves bit 4
\* of uartlcr_h clear (its original state only if it was clear before) and
\* every other bit of uartlcr_h as it was, for every initial value.
C5_FifoBitCleared ==
    PairDone("set_fifo_mode") =>
        /\ 4 \notin mem["uartlcr_h"]
        /\ mem["uartlcr_h"] \ {4} = h.hw1.mem["uartlcr_h"] \ {4}

\* the pair done on a line-control register whose FIFO bit was set, with
\* other bits set around it
C5_Witness ==
    /\ PairDone("set_fifo_mode")
    /\ h.hw1.mem["uartlcr_h"] = BitNot32(W(0))
    /\ mem["uartlcr_h"] = BitNot32(W(16))

---------------------------------------------------------------------------
(* Scenario: the status queries over a register block holding any flags.   *)

\* every value of the flag register's other bits
OtherFlagsAll == {v \ W(RXFE + TXFF) : v \in RegVals}

InitFlags ==
    InitWith("idle", {Fill(k) : k \in 0 .. FifoDepth},
             {Fill(k) : k \in 0 .. FifoDepth}, OtherFlagsAll,
             {MemAll(W(0))}, {FALSE}, TRUE)

FlagsClient ==
    \/ Call("has_incoming_data", Loc0)
    \/ Call("is_writeable", Loc0)

NextFlags ==
    \/ FlagsClient
    \/ HasIncomingDataOp
    \/ IsWriteableOp

SpecFlags == InitFlags /\ [][NextFlags]_vars

\* C7: has_incoming_data() is true iff bit 4 of the flag register is clear,
\* is_writeable() is true iff bit 5 is clear, whatever the other bits; each
\* reads uartfr and nothing else, writes nothing, is always able to take its
\* one step, and leaves the registers and both FIFOs as they were.
C7_QueriesDecodeFlags ==
    /\ pc = "hid" => ENABLED HasIncomingDataOp
    /\ pc = "iw" => ENABLED IsWriteableOp
    /\ (op \in {"has_incoming_data", "is_writeable"} /\ pc = "idle") =>
         /\ op = "has_incoming_data" => ret = RetBool(4 \notin FlagReg)
         /\ op = "is_writeable" => ret = RetBool(5 \notin FlagReg)
         /\ h.rd = {"uartfr"}
         /\ h.wr = {}
         /\ h.hw0 = [rx |-> rxFifo, tx |-> txFifo, fr |-> frOther,
                     mem |-> mem]

\* is_writeable answering true while RXFE and every other bit but TXFF is set
C7_Witness ==
    /\ op = "is_writeable"
    /\ pc = "idle"
    /\ ret = RetBool(TRUE)
    /\ FlagReg = BitNot32(W(TXFF))

---------------------------------------------------------------------------
(* Scenario: construction, over a peripheral that goes about its business. *)

InitNew ==
    InitWith("start", Fifos(FifoDepth), {Fill(k) : k \in 0 .. FifoDepth},
             OtherFlagVals, {MemAll(W(0))}, {FALSE}, TRUE)

NewClient == \E a \in 0 .. MaxAddr : Call("new", [Loc0 EXCEPT !.addr = a])

NextNew ==
    \/ NewClient
    \/ New
    \/ HwReceive
    \/ HwTransmit
    \/ HwFlags

SpecNew == InitNew /\ [][NextNew]_vars

\* C8: new(address) aborts if and only if the address is null; then there is
\* no driver and no register was accessed; for any other address it yields
\* a driver bound to that address, again without accessing a register.
C8_NewFailsIffNull ==
    (op = "new" /\ pc # "new") =>
        /\ pc = "aborted" <=> loc.addr = 0
        /\ pc = "aborted" => (regs = 0 /\ ret = Panic)
        /\ pc # "aborted" =>
             (pc = "idle" /\ regs = loc.addr /\ ret = RetDriver(loc.addr))
        /\ h.rd = {}
        /\ h.wr = {}
        /\ h.hw0.mem = mem

\* new(null) has aborted
C8_Witness ==
    /\ op = "new"
    /\ pc = "aborted"
    /\ loc.addr = 0
    /\ regs = 0

---------------------------------------------------------------------------
(* Scenario: the blocking operations, with the processor running the       *)
(* driver whenever it has a step to take and the peripheral sending        *)
(* whatever is queued.  Nothing obliges a byte to arrive.                  *)

InitLive ==
    InitWith("idle", {Fill(0)}, {Fill(0), Fill(FifoDepth)}, {W(0)},
             {MemAll(W(0))}, {FALSE}, FALSE)

LiveClient ==
    \/ Call("read_byte", Loc0)
    \/ \E b \in LiveBytes : Call("write_byte", [Loc0 EXCEPT !.data = b])
    \/ \E n \in 0 .. MaxBuf :
         Call("write_bytes", [Loc0 EXCEPT !.buf = LiveStr(n)])

BlockingStep ==
    \/ ReadByteSpin
    \/ ReadByteData
    \/ WriteByteSpin
    \/ WriteByteData
    \/ WriteBytesNext

NextLive ==
    \/ LiveClient
    \/ BlockingStep
    \/ HwReceiveOf({SampleByte(0)})
    \/ HwTransmit

SpecLive ==
    /\ InitLive
    /\ [][NextLive]_vars
    /\ WF_vars(BlockingStep)
    /\ WF_vars(HwTransmit)

\* C9: a blocking operation leaves its wait only on the flag it waits for
\* (read_byte never returns while the receive FIFO stays empty, write_byte
\* never writes while the transmit FIFO stays full); read_byte returns once
\* data is available; and, the peripheral draining its transmit FIFO,
\* write_byte returns and write_bytes returns having written every byte.
C9_BlockingTermination ==
    /\ [][(pc = "rb_spin" /\ pc' # "rb_spin") => rxFifo # <<>>]_vars
    /\ [][(pc = "wb_spin" /\ pc' # "wb_spin") => Len(txFifo) < FifoDepth]_vars
    /\ []((op \in {"write_byte", "write_bytes"} /\ pc = "idle")
            => h.drLog = Words32(h.sent))
    /\ (\/ pc = "rb_spin" /\ rxFifo # <<>>
        \/ op \in {"write_byte", "write_bytes"} /\ pc # "idle")
          ~> (pc = "idle")

\* write_bytes of two bytes, complete, having waited for the FIFO to drain
C9_Witness ==
    /\ op = "write_bytes"
    /\ pc = "idle"
    /\ h.spun
    /\ Len(h.sent) = 2
    /\ Len(h.drLog) = 2

---------------------------------------------------------------------------
(* Scenario: laying out PL011_Regs, one u32 after the other.               *)

InitLayout ==
    InitWith("idle", {Fill(0)}, {Fill(0)}, {W(0)}, {MemAll(W(0))}, {FALSE},
             FALSE)

NextLayout ==
    \/ LayoutElement
    \/ LayoutField

SpecLayout == InitLayout /\ [][NextLayout]_vars

\* the offsets the register map is said to have, in 32-bit words
StatedWord ==
    [n \in {Fields[j].name : j \in 1 .. Len(Fields)} |->
       CASE n = "uartdr" -> 0
         [] n = "uartrsr" -> 1
         [] n = "reserved0" -> 2
         [] n = "uartfr" -> 6
         [] n = "reserved1" -> 7
         [] n = "uartilpr" -> 8
         [] n = "uartibrd" -> 9
         [] n = "uartfbrd" -> 10
         [] n = "uartlcr_h" -> 11
         [] n = "uartcr" -> 12
         [] n = "uartifls" -> 13
         [] n = "uartimsc" -> 14
         [] n = "uartris" -> 15
         [] n = "uartmis" -> 16
         [] n = "uarticr" -> 17
         [] n = "uartdmacr" -> 18
         [] n = "reserved2" -> 19
         [] n = "uartperiphid0" -> 1016
         [] n = "uartperiphid1" -> 1017
         [] n = "uartperiphid2" -> 1018
         [] n = "uartperiphid3" -> 1019
         [] n = "uartpcellid0" -> 1020
         [] n = "uartpcellid1" -> 1021
         [] n = "uartpcellid2" -> 1022
         [] n = "uartpcellid3" -> 1023]

\* C10: summing the declared field widths in declaration order puts every
\* field at its stated word offset (data 0, receive status 1, reserved 2-5,
\* flags 6, ..., DMA control 18, a 997-word gap, peripheral ID0-3 at
\* 1016-1019, PCell ID0-3 at 1020-1023), and the window is 1024 words.
C10_LayoutMatchesMap ==
    IF lay.f <= Len(Fields)
    THEN lay.off = WordBytes * (StatedWord[Fields[lay.f].name] + lay.k)
    ELSE lay.off = WordBytes * 1024

\* the last field, PCell ID3, laid out at word 1023 behind the 997-word gap
C10_Witness ==
    /\ lay.f = Len(Fields)
    /\ Fields[lay.f].name = "uartpcellid3"
    /\ lay.off = 4092

---------------------------------------------------------------------------
(* Scenario: read_byte over every byte value and every pattern of the     *)
(* data register's upper bits, the words read being recorded.              *)

InitReadByte ==
    InitObs("idle", {<<>>} \cup {<<b>> : b \in AllBytes}, {Fill(0)},
            OtherFlagVals, {MemAll(W(0))}, {FALSE},
            [H0 EXCEPT !.trace = TRUE])

ReadByteClient ==
    /\ op = "none"
    /\ Call("read_byte", Loc0)

NextReadByte ==
    \/ ReadByteClient
    \/ ReadByteSpin
    \/ ReadByteData
    \/ HwReceive
    \/ HwFlags

SpecReadByte == InitReadByte /\ [][NextReadByte]_vars

\* C11: read_byte reads the data register exactly once per call (never
\* before it returns more than once, once when it has returned) and returns
\* the low 8 bits of the word it read, whatever bits 8..31 of it hold.
C11_ReadByteLow8 ==
    op = "read_byte" =>
        /\ Len(h.drIn) <= 1
        /\ pc = "idle" =>
             /\ Len(h.drIn) = 1
             /\ ret = RetU8(Val({i \in h.drIn[1] : i < U8Width}))

\* read_byte returned 255 from a word whose 32 bits were all set
C11_Witness ==
    /\ op = "read_byte"
    /\ pc = "idle"
    /\ h.drIn = <<BitNot32(W(0))>>
    /\ ret = RetU8(255)

---------------------------------------------------------------------------
(* Scenario: one of the non-blocking operations of embedded_hal::serial,   *)
(* called on a peripheral in any state, the peripheral being recorded at   *)
(* the call and nothing else acting on it.                                 *)

InitSerial ==
    InitObs("idle", Fifos(FifoDepth), {Fill(k) : k \in 0 .. FifoDepth},
            OtherFlagVals, {MemAll(W(0))}, {FALSE},
            [H0 EXCEPT !.watch = TRUE, !.trace = TRUE])

SerialClient ==
    /\ op = "none"
    /\ \/ Call("read", Loc0)
       \/ \E b \in ByteVals : Call("write", [Loc0 EXCEPT !.data = b])
       \/ Call("flush", Loc0)

NextSerial ==
    \/ SerialClient
    \/ SerialRead
    \/ SerialReadData
    \/ SerialWriteFlush
    \/ SerialWriteData
    \/ SerialFlush

SpecSerial == InitSerial /\ [][NextSerial]_vars

\* the peripheral is as it was when the operation was called
HwAsAtCall ==
    h.hw0 = [rx |-> rxFifo, tx |-> txFifo, fr |-> frOther, mem |-> mem]

---------------------------------------------------------------------------
(* Scenario: formatted output.  The client calls write_str and write_byte  *)
(* in any order while the peripheral drains its FIFO at any time.          *)

InitWriteStr ==
    InitWith("idle", {Fill(0)}, {Fill(k) : k \in 0 .. FifoDepth},
             OtherFlagVals, {MemAll(W(0))}, {FALSE}, FALSE)

WriteStrClient ==
    \/ \E b \in ByteVals : Call("write_byte", [Loc0 EXCEPT !.data = b])
    \/ \E bs \in Strs : Call("write_str", [Loc0 EXCEPT !.buf = bs])

NextWriteStr ==
    \/ WriteStrClient
    \/ WriteByteSpin
    \/ WriteByteData
    \/ WriteStrNext
    \/ WriteStrBlock
    \/ SerialWriteFlush
    \/ SerialWriteData
    \/ HwTransmit
    \/ HwFlags

SpecWriteStr == InitWriteStr /\ [][NextWriteStr]_vars

\* C15: write_str(s) writes to uartdr what one write_byte call per byte of s
\* writes, in the same order (at every moment the words written so far are
\* the first words of s, none written while the transmit FIFO is full), and
\* when it returns it has written all of them and returns Ok: it never
\* returns fmt::Error.
C15_WriteStrAsWriteByte ==
    /\ ret # FmtError
    /\ op \in {"write_byte", "write_str"} =>
         /\ h.fault # "overrun"
         /\ Len(h.drLog) <= Len(h.sent)
         /\ \A j \in 1 .. Len(h.drLog) : h.drLog[j] = W(h.sent[j])
         /\ pc = "idle" => Len(h.drLog) = Len(h.sent)
    /\ (op = "write_str" /\ pc = "idle") => ret = Ok

\* write_str of two different bytes, returned Ok, having retried on a full
\* transmit FIFO
C15_Witness ==
    /\ op = "write_str"
    /\ pc = "idle"
    /\ ret = Ok
    /\ h.spun
    /\ Len(h.sent) = 2
    /\ h.sent[1] < h.sent[2]
    /\ h.drLog = <<W(h.sent[1]), W(h.sent[2])>>

---------------------------------------------------------------------------
(* Scenario: the whole driver over registers that each hold a value of     *)
(* their own.                                                              *)

\* where a field is in the declaration order
FieldIndex(r) == CHOOSE j \in 1 .. Len(Fields) : Fields[j].name = r

\* every register holding its own value: all bits set but those of its index
RegInit == [r \in RwRegs |-> BitNot32(W(FieldIndex(r)))]

InitRegs ==
    InitWith("start", {Fill(0)}, {Fill(0)}, {W(0)}, {RegInit}, {FALSE},
             FALSE)

SpecRegs == InitRegs /\ [][Next]_vars

\* the registers an operation may write
MayWrite(o) ==
    CASE o \in WriteOps -> {"uartdr"}
      [] o = "enable_rx_interrupt" -> {"uartimsc"}
      [] o = "set_fifo_mode" -> {"uartlcr_h"}
      [] OTHER -> {}

\* C16: whatever operations are called, in whatever order, each writes at
\* most one register: uartdr by the writing byte operations, uartimsc by
\* enable_rx_interrupt, uartlcr_h by set_fifo_mode, none by any other
\* (log_status, the status queries, the reading operations, new); and
\* the receive-status, IrDA, baud-rate, control, interrupt FIFO level,
\* interrupt clear and DMA control registers hold their initial values.
C16_OnlyThreeRegistersWritten ==
    /\ h.wr \subseteq MayWrite(op)
    /\ \A q \in RwRegs \ {"uartimsc", "uartlcr_h"} : mem[q] = RegInit[q]

\* set_fifo_mode(false) done after enable_rx_interrupt(false) and with bytes
\* written: both bits cleared, every other register as it was
C16_Witness ==
    /\ op = "set_fifo_mode"
    /\ pc = "idle"
    /\ h.wr = {"uartlcr_h"}
    /\ mem["uartlcr_h"] = RegInit["uartlcr_h"] \ {4}
    /\ mem["uartimsc"] = RegInit["uartimsc"] \ {4}
    /\ 4 \in RegInit["uartlcr_h"] \cap RegInit["uartimsc"]
    /\ txFifo # <<>>
    /\ mem["uartcr"] = RegInit["uartcr"]

---------------------------------------------------------------------------
(* Scenario: the feature toggles with a second actor (another driver       *)
(* instance, an interrupt handler) on the same registers.  Between a       *)
(* toggle's read of its register and its write-back, the second actor may  *)
(* flip one of the register's other bits.                                  *)

\* the second actor flips a bit, not the toggle's own, of register r while
\* the driver is at position at, its copy of r read and not yet written back
SecondActor(at, r, bit) ==
    /\ pc = at
    /\ h.raced = NoRace
    /\ \E b \in (0 .. RegBits) \ W(bit) :
         /\ mem' = [mem EXCEPT ![r] = IF b \in @ THEN @ \ {b} ELSE @ \cup {b}]
         /\ h' = [h EXCEPT !.raced =
                     [reg |-> r, bit |-> b, set |-> b \notin mem[r]]]
    /\ UNCHANGED <<lay, regs, pc, op, loc, ret, rxFifo, txFifo, frOther, lbe>>

SecondActorMask == SecondActor("eri_write", "uartimsc", RXIM)
SecondActorLine == SecondActor("sfm_write", "uartlcr_h", FEN)

InitRace ==
    InitWith("idle", {Fill(0)}, {Fill(0)}, {W(0)},
             {MemAll(v) : v \in RegVals}, {FALSE}, TRUE)

NextRace ==
    \/ ToggleClient
    \/ EnableRxInterruptRead
    \/ EnableRxInterruptWrite
    \/ SetFifoModeRead
    \/ SetFifoModeWrite
    \/ LogStatus
    \/ SecondActorMask
    \/ SecondActorLine

SpecRace == InitRace /\ [][NextRace]_vars

\* the register a toggle works on, and the bit of it that it sets or clears
ToggleReg(o) == IF o = "enable_rx_interrupt" THEN "uartimsc" ELSE "uartlcr_h"
ToggleBit(o) == IF o = "enable_rx_interrupt" THEN W(RXIM) ELSE W(FEN)

\* C17: a toggle that no second actor interferes with changes no bit of its
\* register but its own; a toggle between whose read and write-back a
\* second actor changed another bit of the register writes that bit back as
\* it had read it: the second actor's change is lost.
C17_ToggleLosesUpdate ==
    (op \in {"enable_rx_interrupt", "set_fifo_mode"} /\ pc = "idle") =>
        LET r == ToggleReg(op)
            before == h.hw0.mem[r]
        IN IF h.raced = NoRace
           THEN mem[r] \ ToggleBit(op) = before \ ToggleBit(op)
           ELSE /\ h.raced.reg = r
                /\ h.raced.bit \notin ToggleBit(op)
                /\ (h.raced.bit \in before) # h.raced.set
                /\ (h.raced.bit \in mem[r]) <=> (h.raced.bit \in before)

\* enable_rx_interrupt(true) has set bit 4 of the mask register and, writing
\* back what it had read, cleared the bit 5 that the second actor had set
\* meanwhile
C17_Witness ==
    /\ op = "enable_rx_interrupt"
    /\ pc = "idle"
    /\ loc.enable
    /\ h.raced = [reg |-> "uartimsc", bit |-> 5, set |-> TRUE]
    /\ mem["uartimsc"] = h.hw0.mem["uartimsc"] \cup W(RXIM)
    /\ 5 \notin mem["uartimsc"]

====
